---- MODULE Spec2Model ----
(* GitGutterSettings (git_gutter_settings.py): the settings resolver of the  *)
(* GitGutter plugin, together with the part of the host (Sublime Text        *)
(* settings stores, process environment, file system, package resources)     *)
(* that its methods read.                                                     *)
EXTENDS Integers, Sequences, FiniteSets, TLC

VARIABLES
    \* ---- host ----
    ST3,            \* sublime.version() >= 3000
    platform,       \* sublime.platform()
    plugin_store,   \* content of GitGutter.sublime-settings (key -> value)
    user_store,     \* content of Preferences.sublime-settings (key -> value)
    environ,        \* os.environ: [GIT, PATH]
    files,          \* file system: folder -> "none" | "file" | "exec" (the git executable in it)
    resources,      \* package resources known to sublime.find_resources
    \* ---- GitGutterSettings instance ----
    _settings,
    _user_settings,
    _git_binary_path_fallback,
    _git_binary_path_error_shown,
    _compare_against_mapping,
    git_binary_path,
    ignore_whitespace,
    patience_switch,
    _theme_path,
    \* ---- observation of the calls ----
    pc,             \* "import" while the module body still runs, then "ready"
    last,           \* the last call: its name, arguments and outcome
    dialogs         \* number of sublime.error_message dialogs shown so far

host == <<ST3, platform, plugin_store, user_store, environ, files, resources>>
loaded == <<_settings, _user_settings, _git_binary_path_fallback,
            _git_binary_path_error_shown, git_binary_path, ignore_whitespace,
            patience_switch, dialogs>>
resolver == <<loaded, _compare_against_mapping, _theme_path>>
vars == <<host, resolver, pc, last>>

-----------------------------------------------------------------------------
(* Python values. A string is the sequence of its path components and a     *)
(* component is a stem with an extension, so that os.path.join, dirname,     *)
(* basename and splitext are computed, not assumed.                          *)

C(stem) == [stem |-> stem, ext |-> ""]
F(stem, ext) == [stem |-> stem, ext |-> ext]

None == [t |-> "none"]
Str(s) == [t |-> "str", v |-> s]
S(x) == Str(<<C(x)>>)
EmptyStr == Str(<<>>)
IntV(n) == [t |-> "int", v |-> n]
BoolV(b) == [t |-> "bool", v |-> b]
Dict(f) == [t |-> "dict", v |-> f]

\* Python truth value of x (`if x`, `not x`, `x or y`).
Truthy(x) ==
    CASE x.t = "none" -> FALSE
      [] x.t = "str"  -> x.v # <<>>
      [] x.t = "int"  -> x.v # 0
      [] x.t = "bool" -> x.v
      [] x.t = "dict" -> DOMAIN x.v # {}

\* Python `x or y`.
Or(x, y) == IF Truthy(x) THEN x ELSE y

\* dict.get(key): None when the key is missing.
DictGet(d, key) == IF key \in DOMAIN d.v THEN d.v[key] ELSE None

-----------------------------------------------------------------------------
(* sublime.Settings: a store maps each key to a value, or to NoKey when the  *)
(* key is not in the settings file.                                          *)

NoKey == [t |-> "nokey"]
Keys == {"git_binary", "ignore_whitespace", "patience", "compare_against",
         "show_in_minimap", "theme"}

SettingsHas(store, key) == store[key] # NoKey
SettingsGet(store, key, default) ==
    IF SettingsHas(store, key) THEN store[key] ELSE default

-----------------------------------------------------------------------------
(* Process environment and file system.                                      *)

\* "git.exe" if sublime.platform() == "windows" else "git"
git_exe == IF platform = "windows" THEN F("git", ".exe") ELSE C("git")

\* os.path.isfile(path) and os.access(path, os.X_OK) for the git executable
\* of folder dir; on Windows os.access reports X_OK for every existing file.
IsExecutableFile(dir) ==
    \/ files[dir] = "exec"
    \/ platform = "windows" /\ files[dir] = "file"

\* folder.strip('"'): a PATH entry may be written in double quotes.
Strip(entry) == entry.dir

\* The folder a PATH entry names when it is used as written: a quoted entry
\* names no existing folder.
Literal(entry) == IF entry.quoted THEN "" ELSE entry.dir

\* The folder of the first PATH entry that holds an executable git, as
\* <<folder>>, or <<>>; entries are stripped of quotes or taken literally.
RECURSIVE FirstInPath(_, _)
FirstInPath(path, stripped) ==
    IF path = <<>> THEN <<>>
    ELSE LET dir == IF stripped THEN Strip(Head(path)) ELSE Literal(Head(path))
         IN IF dir # "" /\ IsExecutableFile(dir)
            THEN <<dir>>
            ELSE FirstInPath(Tail(path), stripped)

\* shutil.which("git"): the first PATH entry, taken literally, that holds an
\* executable git; None when there is none.
which ==
    LET hit == FirstInPath(environ.PATH, FALSE)
    IN IF hit = <<>> THEN None ELSE Str(<<C(hit[1]), git_exe>>)

\* The ST2 loop over os.environ["PATH"].split(os.pathsep): the first entry,
\* stripped of quotes, whose os.path.join(folder, git_exe) is an executable file.
scan_path ==
    LET hit == FirstInPath(environ.PATH, TRUE)
    IN IF hit = <<>> THEN None ELSE Str(<<C(hit[1]), git_exe>>)

\* os.path.expandvars on a string: every component $GIT is replaced by the
\* value of the environment variable GIT when it is set, and kept otherwise.
RECURSIVE ExpandComponents(_)
ExpandComponents(s) ==
    IF s = <<>> THEN <<>>
    ELSE (IF Head(s) = C("$GIT") /\ environ.GIT # None
          THEN environ.GIT.v ELSE <<Head(s)>>) \o ExpandComponents(Tail(s))

expandvars(x) == Str(ExpandComponents(x.v))

-----------------------------------------------------------------------------
(* GitGutterSettings.load_settings                                           *)

\* sublime.load_settings(name): a live reference to the named store.
SettingsRef(name) == [t |-> "settings", v |-> name]

\* self._user_settings.get("git_binary") or self._settings.get("git_binary")
git_binary_setting ==
    Or(SettingsGet(user_store, "git_binary", None),
       SettingsGet(plugin_store, "git_binary", None))

\* The configured value: the platform's entry of a mapping, then its
\* 'default' entry; the setting itself when it is no mapping.
configured_git_binary ==
    LET setting == git_binary_setting
    IN IF setting.t = "dict"
       THEN LET entry == DictGet(setting, platform)
            IN IF ~Truthy(entry) THEN DictGet(setting, "default") ELSE entry
       ELSE setting

\* Mutant of whitespace_switch: 'eol' is not recognised.
whitespace_switch_no_eol(setting) ==
    IF setting = S("all") THEN S("-w") ELSE EmptyStr

\* 'all' -> '-w', 'eol' -> '--ignore-space-at-eol', anything else -> ''
whitespace_switch(setting) ==
    IF setting = S("all") THEN S("-w")
    ELSE IF setting = S("eol") THEN S("--ignore-space-at-eol")
    ELSE EmptyStr

\* '--patience' if the setting is true, else ''
patience_of(setting) == IF Truthy(setting) THEN S("--patience") ELSE EmptyStr

\* Mutant of git_binary_branch: the cached fallback is not consulted.
git_binary_branch_rescans(configured) ==
    IF Truthy(configured) THEN "configured"
    ELSE IF ST3 THEN "which" ELSE "scan"

\* The branch of `if self.git_binary_path: ... elif
\* self._git_binary_path_fallback: ... elif ST3: ... else: ...` taken.
git_binary_branch(configured) ==
    IF Truthy(configured) THEN "configured"
    ELSE IF Truthy(_git_binary_path_fallback) THEN "fallback"
    ELSE IF ST3 THEN "which" ELSE "scan"

\* self.git_binary_path and self._git_binary_path_fallback after that branch;
\* searched is what shutil.which (ST3) or the loop over PATH (ST2) finds.
resolve_git_binary(branch, configured, searched) ==
    [path |-> CASE branch = "configured" -> expandvars(configured)
                [] branch = "fallback" -> _git_binary_path_fallback
                [] branch = "which" -> searched
                [] branch = "scan" ->
                      IF searched # None THEN searched ELSE configured,
     fallback |-> CASE branch = "which" -> searched
                    [] branch = "scan" /\ searched # None -> searched
                    [] OTHER -> _git_binary_path_fallback]

git_binary_of(configured) ==
    resolve_git_binary(git_binary_branch(configured), configured,
                       IF ST3 THEN which ELSE scan_path)

\* `if not self.git_binary_path: if not self._git_binary_path_error_shown:`
\* the dialog is shown and ValueError raised inside the inner `if` only.
raises_not_found(missing) == missing /\ ~_git_binary_path_error_shown

\* Mutant of error_shown_after: the flag is never set.
error_shown_never(missing) == _git_binary_path_error_shown

\* self._git_binary_path_error_shown after that block.
error_shown_after(missing) == _git_binary_path_error_shown \/ missing

\* The rest of load_settings, which a raise skips.
load_switches(git_binary, raised) ==
    [git_binary_path |-> git_binary.path,
     fallback |-> git_binary.fallback,
     error_shown |-> error_shown_after(~Truthy(git_binary.path)),
     dialog |-> raised,
     raised |-> raised,
     ignore_whitespace |->
         IF raised THEN ignore_whitespace
         ELSE whitespace_switch(SettingsGet(plugin_store, "ignore_whitespace", None)),
     patience_switch |->
         IF raised THEN patience_switch
         ELSE patience_of(SettingsGet(plugin_store, "patience", None))]

check_git_binary(git_binary) ==
    load_switches(git_binary, raises_not_found(~Truthy(git_binary.path)))

\* The outcome of one run of load_settings in the current state: the values
\* it leaves in the instance, whether it raised ValueError, and whether it
\* showed the error dialog.
load_settings == check_git_binary(git_binary_of(configured_git_binary))

MaxDialogs == 3

\* The instance after a run of load_settings with outcome L.
Loaded(L) ==
    /\ _settings' = SettingsRef("GitGutter.sublime-settings")
    /\ _user_settings' = SettingsRef("Preferences.sublime-settings")
    /\ git_binary_path' = L.git_binary_path
    /\ _git_binary_path_fallback' = L.fallback
    /\ _git_binary_path_error_shown' = L.error_shown
    /\ ignore_whitespace' = L.ignore_whitespace
    /\ patience_switch' = L.patience_switch
    /\ dialogs' = IF L.dialog /\ dialogs < MaxDialogs THEN dialogs + 1 ELSE dialogs

-----------------------------------------------------------------------------
(* The record of a call.                                                     *)

\* view.settings(): the two keys the resolver reads; None when a key is unset.
ViewSettings(compare, width) ==
    [git_gutter_compare_against |-> compare, git_gutter_show_in_minimap |-> width]
NoView == ViewSettings(None, None)

\* loaded: load_settings ran within the call; raised: the call raised;
\* queried: the call queried sublime.find_resources; tick: alternates from
\* one step to the next, so that two equal calls in a row are two steps.
Call(op) ==
    [op |-> op, key |-> "", git_tree |-> "", view |-> NoView, value |-> None,
     ret |-> None, loaded |-> FALSE, raised |-> FALSE, queried |-> FALSE,
     tick |-> FALSE]

Called(op) == [Call(op) EXCEPT !.tick = ~last.tick]

\* What a call that ran outcome o leaves in `last`.
Outcome(call, o) ==
    [call EXCEPT !.loaded = o.loads, !.raised = o.raised,
                 !.queried = o.queried,
                 !.ret = IF o.raised THEN None ELSE o.ret]

-----------------------------------------------------------------------------
(* GitGutterSettings.load_settings, get and set as called                    *)

\* Mutant of get_reloads: every get reloads the settings.
get_reloads_always(key) == TRUE

\* `self._settings is None or not self._settings.has(key)`
get_reloads(key) == _settings = None \/ ~SettingsHas(plugin_store, key)

\* self.get(key, default), where L is the outcome load_settings has if run:
\* whether get ran it, whether get raised, and the value returned otherwise.
get_after(key, default, L) ==
    [loads |-> get_reloads(key), L |-> L,
     raised |-> get_reloads(key) /\ L.raised, queried |-> FALSE,
     ret |-> SettingsGet(plugin_store, key, default)]

get(key, default) == get_after(key, default, load_settings)

\* A call that does not reach self.get.
NoGet == [loads |-> FALSE, L |-> None, raised |-> FALSE, queried |-> FALSE,
          ret |-> None]

\* The instance after self.get with outcome g.
AfterGet(g) == IF g.loads THEN Loaded(g.L) ELSE UNCHANGED loaded

\* settings.load_settings(), as plugin_loaded and other modules call it.
LoadSettingsWith(L) ==
    /\ Loaded(L)
    /\ pc' = "ready"
    /\ last' = [Called("load_settings") EXCEPT
                  !.loaded = TRUE, !.raised = L.raised]
    /\ UNCHANGED <<host, _compare_against_mapping, _theme_path>>

LoadSettings == LoadSettingsWith(load_settings)

\* settings.get(key, default)
GetWith(key, default, g) ==
    /\ pc = "ready"
    /\ AfterGet(g)
    /\ last' = Outcome([Called("get") EXCEPT !.key = key, !.value = default], g)
    /\ UNCHANGED <<host, _compare_against_mapping, _theme_path, pc>>

Get(key, default) == GetWith(key, default, get(key, default))

\* settings.set(key, value): load_settings only when self._settings is None.
set_after(L) ==
    [loads |-> _settings = None, L |-> L,
     raised |-> _settings = None /\ L.raised, queried |-> FALSE, ret |-> None]

SetWith(key, value, g) ==
    /\ pc = "ready"
    /\ AfterGet(g)
    /\ plugin_store' = IF g.raised THEN plugin_store
                       ELSE [plugin_store EXCEPT ![key] = value]
    /\ last' = Outcome([Called("set") EXCEPT !.key = key, !.value = value], g)
    /\ UNCHANGED <<ST3, platform, user_store, environ, files, resources,
                   _compare_against_mapping, _theme_path, pc>>

Set(key, value) == SetWith(key, value, set_after(load_settings))

-----------------------------------------------------------------------------
(* get_compare_against and set_compare_against                               *)

\* get_compare_against(git_tree, view), where g is the outcome of
\* self.get('compare_against', 'HEAD') if it is reached: the self.get that
\* ran, if any, whether the call raised and the value returned otherwise.
compare_against_after(git_tree, compare, g) ==
    IF git_tree \in DOMAIN _compare_against_mapping
    THEN [NoGet EXCEPT !.ret = _compare_against_mapping[git_tree]]
    ELSE IF ~Truthy(compare) THEN g
    ELSE [NoGet EXCEPT !.ret = compare]

get_compare_against(git_tree, view) ==
    compare_against_after(git_tree, view.git_gutter_compare_against,
                          get("compare_against", S("HEAD")))

GetCompareAgainstWith(git_tree, view, c) ==
    /\ pc = "ready"
    /\ AfterGet(c)
    /\ last' = Outcome([Called("get_compare_against") EXCEPT
                          !.git_tree = git_tree, !.view = view], c)
    /\ UNCHANGED <<host, _compare_against_mapping, _theme_path, pc>>

GetCompareAgainst(git_tree, view) ==
    GetCompareAgainstWith(git_tree, view, get_compare_against(git_tree, view))

\* Mutant of assign_compare_against: the assignment replaces the whole mapping.
assign_compare_against_alone(git_tree, new_compare_against) ==
    [r \in {git_tree} |-> new_compare_against]

\* self._compare_against_mapping[git_tree] = new_compare_against
assign_compare_against(git_tree, new_compare_against) ==
    [r \in DOMAIN _compare_against_mapping \cup {git_tree} |->
        IF r = git_tree THEN new_compare_against
        ELSE _compare_against_mapping[r]]

SetCompareAgainst(git_tree, new_compare_against) ==
    /\ pc = "ready"
    /\ _compare_against_mapping' =
           assign_compare_against(git_tree, new_compare_against)
    /\ last' = [Called("set_compare_against") EXCEPT
                  !.git_tree = git_tree, !.value = new_compare_against]
    /\ UNCHANGED <<host, loaded, _theme_path, pc>>

-----------------------------------------------------------------------------
(* get_show_in_minimap                                                       *)

MinimapUnbounded == 100000

\* Mutant of minimap_limit: `0 < width`.
minimap_limit_strict(width) ==
    IF 0 < width.v THEN width ELSE IntV(MinimapUnbounded)

\* `width if 0 <= width else 100000`
minimap_limit(width) ==
    IF 0 <= width.v THEN width ELSE IntV(MinimapUnbounded)

\* get_show_in_minimap(view), where g is the outcome of
\* self.get('show_in_minimap', 1) if it is reached.
show_in_minimap_after(width, g) ==
    IF ~ST3 THEN [NoGet EXCEPT !.ret = IntV(0)]
    ELSE IF width = None
    THEN [g EXCEPT !.ret = IF g.raised THEN None ELSE minimap_limit(g.ret)]
    ELSE [NoGet EXCEPT !.ret = minimap_limit(width)]

get_show_in_minimap(view) ==
    show_in_minimap_after(view.git_gutter_show_in_minimap,
                          get("show_in_minimap", IntV(1)))

GetShowInMinimapWith(view, m) ==
    /\ pc = "ready"
    /\ AfterGet(m)
    /\ last' = Outcome([Called("get_show_in_minimap") EXCEPT !.view = view], m)
    /\ UNCHANGED <<host, _compare_against_mapping, _theme_path, pc>>

GetShowInMinimap(view) == GetShowInMinimapWith(view, get_show_in_minimap(view))

-----------------------------------------------------------------------------
(* theme_path and default_theme_path                                         *)

package_name == C("GitGutter")

\* '%s/%s/themes' % ('Packages' if ST3 else '..', self.package_name)
_builtin_theme_path ==
    Str(<<IF ST3 THEN C("Packages") ELSE C(".."), package_name, C("themes")>>)

default_theme_path == Str(_builtin_theme_path.v \o <<C("Default")>>)

\* os.path.basename, os.path.dirname and os.path.splitext
basename(path) ==
    IF path.v = <<>> THEN EmptyStr ELSE Str(<<path.v[Len(path.v)]>>)
dirname(path) ==
    IF path.v = <<>> THEN EmptyStr ELSE Str(SubSeq(path.v, 1, Len(path.v) - 1))
splitext(path) ==
    IF path.v = <<>> THEN EmptyStr
    ELSE Str(SubSeq(path.v, 1, Len(path.v) - 1)
             \o <<[path.v[Len(path.v)] EXCEPT !.ext = ""]>>)

\* sublime.find_resources(theme): the resources whose file name is theme.
find_resources(theme) ==
    LET Matches(r) == theme.v = <<r[Len(r)]>>
    IN SelectSeq(resources, Matches)

\* `if theme != os.path.basename(self._theme_path)`
theme_changed(theme) == theme # basename(_theme_path)

\* `os.path.dirname(themes[-1]) if themes else self.default_theme_path`
theme_dir(themes) ==
    IF themes # <<>> THEN dirname(Str(themes[Len(themes)]))
    ELSE default_theme_path

\* self._theme_path rebuilt for theme.
rebuilt_theme_path(theme) ==
    IF ST3 THEN theme_dir(find_resources(theme))
    ELSE Str(_builtin_theme_path.v \o splitext(theme).v)

\* Reading theme_path, where g is the outcome of self.get('theme', ...): the
\* path returned and left in self._theme_path, and whether find_resources
\* was queried.
theme_path_after(g) ==
    IF g.raised THEN [g EXCEPT !.ret = _theme_path]
    ELSE IF theme_changed(g.ret)
    THEN [g EXCEPT !.queried = ST3, !.ret = rebuilt_theme_path(g.ret)]
    ELSE [g EXCEPT !.ret = _theme_path]

theme_path == theme_path_after(get("theme", Str(<<F("Default", ".gitgutter-theme")>>)))

ThemePathWith(t) ==
    /\ pc = "ready"
    /\ AfterGet(t)
    /\ _theme_path' = t.ret
    /\ last' = Outcome(Called("theme_path"), t)
    /\ UNCHANGED <<host, _compare_against_mapping, pc>>

ThemePath == ThemePathWith(theme_path)

-----------------------------------------------------------------------------
(* The host: the user edits the settings files, git is installed or removed, *)
(* packages with themes are installed or removed.                            *)

HostEditSettings(key, value) ==
    /\ plugin_store' = [plugin_store EXCEPT ![key] = value]
    /\ last' = Call("host")
    /\ UNCHANGED <<ST3, platform, user_store, environ, files, resources,
                   resolver, pc>>

HostEditPreferences(value) ==
    /\ user_store' = [user_store EXCEPT !["git_binary"] = value]
    /\ last' = Call("host")
    /\ UNCHANGED <<ST3, platform, plugin_store, environ, files, resources,
                   resolver, pc>>

HostChangeFile(dir, mode) ==
    /\ files' = [files EXCEPT ![dir] = mode]
    /\ last' = Call("host")
    /\ UNCHANGED <<ST3, platform, plugin_store, user_store, environ, resources,
                   resolver, pc>>

HostChangeResources(rs) ==
    /\ resources' = rs
    /\ last' = Call("host")
    /\ UNCHANGED <<ST3, platform, plugin_store, user_store, environ, files,
                   resolver, pc>>

-----------------------------------------------------------------------------
(* Values the settings, the environment and the arguments are drawn from.    *)

Platforms == {"linux", "windows"}
Folders == {"/a", "/b"}
FileModes == {"none", "file", "exec"}
PathEntry(dir, quoted) == [dir |-> dir, quoted |-> quoted]
PathEntries == {PathEntry("/a", FALSE), PathEntry("/b", TRUE)}
MaxPathLen == 2
Paths == UNION {[1..n -> PathEntries] : n \in 0..MaxPathLen}

GitInOpt == Str(<<C("/opt"), C("git")>>)
GitVar == Str(<<C("$GIT")>>)
GitForLinux == Str(<<C("/lin"), C("git")>>)
GitForWindows == Str(<<C("C:"), F("git", ".exe")>>)
GitDefault == Str(<<C("/def"), C("git")>>)
GitOfUser == Str(<<C("/usr"), C("git")>>)
EnvValues == {None, EmptyStr, GitInOpt}

PerPlatform ==
    Dict([k \in {"linux", "default"} |->
            IF k = "linux" THEN GitForLinux ELSE GitDefault])
OnlyWindows == Dict([k \in {"windows"} |-> GitForWindows])
EmptyEntry ==
    Dict([k \in {"linux", "windows", "default"} |->
            IF k = "default" THEN GitDefault ELSE EmptyStr])
PluginGitBinaries == {NoKey, GitVar, PerPlatform, EmptyEntry}
UserGitBinaries == {NoKey, GitOfUser, OnlyWindows}

WhitespaceValues == {NoKey, S("all"), S("eol"), S("none"), BoolV(FALSE)}
PatienceValues == {NoKey, BoolV(TRUE), BoolV(FALSE)}
CompareValues == {NoKey, S("master")}
WidthValues == {IntV(-5), IntV(0), IntV(3)}
DefaultTheme == Str(<<F("Default", ".gitgutter-theme")>>)
BarsTheme == Str(<<F("Bars", ".gitgutter-theme")>>)
PlainTheme == S("Plain")
ThemeValues == {NoKey, DefaultTheme, BarsTheme, PlainTheme}

Roots == {"/repo", "/other"}
Targets == {S("main"), S("dev")}
ViewCompares == {None, EmptyStr, S("develop")}
Views == {ViewSettings(c, w) : c \in ViewCompares, w \in {None, IntV(3)}}
MinimapViews == {ViewSettings(None, w) : w \in WidthValues \cup {None}}

\* Theme files of installed packages, in the order find_resources lists them.
BuiltinDefault ==
    <<C("Packages"), C("GitGutter"), C("themes"), C("Default"),
      F("Default", ".gitgutter-theme")>>
BuiltinBars ==
    <<C("Packages"), C("GitGutter"), C("themes"), C("Bars"),
      F("Bars", ".gitgutter-theme")>>
UserBars ==
    <<C("Packages"), C("User"), F("Bars", ".gitgutter-theme"),
      F("Bars", ".gitgutter-theme")>>
UserPlain == <<C("Packages"), C("User"), C("Plain"), C("Plain")>>
ResourceSets ==
    {<<BuiltinDefault, BuiltinBars>>, <<BuiltinDefault, BuiltinBars, UserBars>>,
     <<BuiltinBars, UserPlain>>, <<>>}

\* The settings file as shipped with the package.
ShippedSettings ==
    [k \in Keys |->
        CASE k = "git_binary" -> NoKey
          [] k = "ignore_whitespace" -> S("none")
          [] k = "patience" -> BoolV(TRUE)
          [] k = "compare_against" -> S("master")
          [] k = "show_in_minimap" -> IntV(3)
          [] k = "theme" -> DefaultTheme]

-----------------------------------------------------------------------------
(* The state after `settings = GitGutterSettings()`.                         *)

InitResolver ==
    /\ _settings = None
    /\ _user_settings = None
    /\ _git_binary_path_fallback = None
    /\ _git_binary_path_error_shown = FALSE
    /\ _compare_against_mapping = [r \in {} |-> None]
    /\ git_binary_path = None
    /\ ignore_whitespace = BoolV(FALSE)
    /\ patience_switch = EmptyStr
    /\ _theme_path = EmptyStr
    /\ pc = IF ST3 THEN "ready" ELSE "import"
    /\ last = Call("__init__")
    /\ dialogs = 0

-----------------------------------------------------------------------------
(* Spec: every operation of the resolver, git installed or not.              *)

Init ==
    /\ ST3 \in BOOLEAN
    /\ platform = "linux"
    /\ plugin_store = ShippedSettings
    /\ user_store = [k \in {"git_binary"} |-> NoKey]
    /\ environ = [GIT |-> None, PATH |-> <<PathEntry("/a", FALSE)>>]
    /\ files \in [Folders -> {"none"}]
    /\ resources = <<BuiltinDefault, BuiltinBars>>
    /\ InitResolver

CallGet ==
    \E key \in {"compare_against", "theme"} : Get(key, None)
CallSet ==
    \E value \in {S("master")} : Set("compare_against", value)
CallGetCompareAgainst ==
    \E git_tree \in Roots, view \in Views : GetCompareAgainst(git_tree, view)
CallSetCompareAgainst ==
    \E git_tree \in Roots, target \in Targets :
        SetCompareAgainst(git_tree, target)
CallGetShowInMinimap == \E view \in Views : GetShowInMinimap(view)
EditCompareAgainst ==
    \E value \in CompareValues : HostEditSettings("compare_against", value)
InstallGit == \E mode \in {"none", "exec"} : HostChangeFile("/a", mode)

Next ==
    \/ LoadSettings
    \/ CallGet
    \/ CallSet
    \/ CallGetCompareAgainst
    \/ CallSetCompareAgainst
    \/ CallGetShowInMinimap
    \/ ThemePath
    \/ EditCompareAgainst
    \/ InstallGit

Spec == Init /\ [][Next]_vars

-----------------------------------------------------------------------------
(* SpecBinary: load_settings under every git_binary setting, environment     *)
(* and PATH content.                                                         *)

InitBinary ==
    /\ ST3 \in BOOLEAN
    /\ platform \in Platforms
    /\ plugin_store = ShippedSettings
    /\ user_store = [k \in {"git_binary"} |-> NoKey]
    /\ environ \in [GIT : EnvValues, PATH : Paths]
    /\ files = [dir \in Folders |-> "none"]
    /\ resources = <<BuiltinDefault, BuiltinBars>>
    /\ InitResolver

EditGitBinary ==
    \E value \in PluginGitBinaries : HostEditSettings("git_binary", value)
EditUserGitBinary ==
    \E value \in UserGitBinaries : HostEditPreferences(value)
ChangeFiles ==
    \E dir \in Folders, mode \in FileModes : HostChangeFile(dir, mode)

NextBinary ==
    \/ LoadSettings
    \/ EditGitBinary
    \/ EditUserGitBinary
    \/ ChangeFiles

SpecBinary == InitBinary /\ [][NextBinary]_vars

-----------------------------------------------------------------------------
(* SpecFlags: load_settings, direct and through get, under every             *)
(* ignore_whitespace and patience setting.                                   *)

GetSwitchSetting ==
    \E key \in {"ignore_whitespace", "patience"} : Get(key, None)
EditIgnoreWhitespace ==
    \E value \in WhitespaceValues : HostEditSettings("ignore_whitespace", value)
EditPatience ==
    \E value \in PatienceValues : HostEditSettings("patience", value)

NextFlags ==
    \/ LoadSettings
    \/ GetSwitchSetting
    \/ EditIgnoreWhitespace
    \/ EditPatience
    \/ InstallGit

SpecFlags == Init /\ [][NextFlags]_vars

-----------------------------------------------------------------------------
(* SpecMinimap: get_show_in_minimap under every view and plugin width.       *)

GetMinimapOfView == \E view \in MinimapViews : GetShowInMinimap(view)
EditShowInMinimap ==
    \E value \in WidthValues \cup {NoKey} :
        HostEditSettings("show_in_minimap", value)

NextMinimap ==
    \/ LoadSettings
    \/ GetMinimapOfView
    \/ EditShowInMinimap
    \/ InstallGit

SpecMinimap == Init /\ [][NextMinimap]_vars

-----------------------------------------------------------------------------
(* SpecTheme: theme_path under every theme setting and set of resources.     *)

EditTheme == \E value \in ThemeValues : HostEditSettings("theme", value)
ChangeResources == \E rs \in ResourceSets : HostChangeResources(rs)

NextTheme ==
    \/ LoadSettings
    \/ ThemePath
    \/ EditTheme
    \/ ChangeResources
    \/ InstallGit

SpecTheme == Init /\ [][NextTheme]_vars

-----------------------------------------------------------------------------
(* Claims.                                                                   *)

Accessors == {"get", "set", "get_compare_against", "get_show_in_minimap",
              "theme_path"}

\* C1 (as claimed): get_compare_against(r, view) returns the override stored
\* for r if there is one, otherwise the view-level setting if set, otherwise
\* the plugin setting compare_against if set, otherwise "HEAD".
C1_Expected(git_tree, view) ==
    IF git_tree \in DOMAIN _compare_against_mapping
    THEN _compare_against_mapping[git_tree]
    ELSE IF Truthy(view.git_gutter_compare_against)
    THEN view.git_gutter_compare_against
    ELSE IF plugin_store["compare_against"] # NoKey
    THEN plugin_store["compare_against"]
    ELSE S("HEAD")

C1_ReturnsByPriority ==
    last.op = "get_compare_against" =>
        /\ ~last.raised
        /\ last.ret = C1_Expected(last.git_tree, last.view)

\* C2: an entry of the compare-target map is created or changed only by
\* set_compare_against on its root, which stores its argument, and is never
\* removed; and get_compare_against(r, view) returns the entry stored for r,
\* whatever the view and the settings hold and whatever ran in between.
C2_OverridePersists ==
    [][/\ \A r \in DOMAIN _compare_against_mapping :
              /\ r \in DOMAIN _compare_against_mapping'
              /\ _compare_against_mapping'[r] # _compare_against_mapping[r]
                    => last'.op = "set_compare_against" /\ last'.git_tree = r
       /\ \A r \in DOMAIN _compare_against_mapping' :
              r \notin DOMAIN _compare_against_mapping
                    => last'.op = "set_compare_against" /\ last'.git_tree = r
       /\ last'.op = "set_compare_against"
              => /\ last'.git_tree \in DOMAIN _compare_against_mapping'
                 /\ _compare_against_mapping'[last'.git_tree] = last'.value
       /\ (last'.op = "get_compare_against"
           /\ last'.git_tree \in DOMAIN _compare_against_mapping)
              => /\ ~last'.raised
                 /\ last'.ret = _compare_against_mapping[last'.git_tree]
      ]_vars

\* C2 witness: both roots have an override, the settings were loaded, and
\* get_compare_against returned the override of a view that has a setting of
\* its own.
C2_Witness ==
    /\ last.op = "get_compare_against"
    /\ DOMAIN _compare_against_mapping = Roots
    /\ _settings # None
    /\ Truthy(last.view.git_gutter_compare_against)
    /\ last.ret = _compare_against_mapping[last.git_tree]
    /\ last.ret # last.view.git_gutter_compare_against

\* C3: the "executable not found" dialog is shown at most once, however many
\* runs of load_settings, direct or through get and set, find no executable.
C3_DialogAtMostOnce == dialogs <= 1

\* C3 witness: a run of load_settings found no executable after the dialog
\* had been shown by an earlier one.
C3_Witness ==
    /\ dialogs = 1
    /\ last.loaded
    /\ ~last.raised
    /\ ~Truthy(git_binary_path)

\* C4 (as claimed): a run of load_settings that finds no executable raises;
\* none completes normally with the resolved executable path left empty.
C4_EveryFailedLoadRaises ==
    (last.loaded /\ ~Truthy(git_binary_path)) => last.raised

\* C5 (as claimed): the width is the view-level setting when set, otherwise
\* the plugin setting (default 1); negative or zero gives 100000, a positive
\* width is returned unchanged.
C5_Width(view) ==
    IF view.git_gutter_show_in_minimap # None
    THEN view.git_gutter_show_in_minimap
    ELSE IF plugin_store["show_in_minimap"] # NoKey
    THEN plugin_store["show_in_minimap"]
    ELSE IntV(1)

C5_ZeroIsUnbounded ==
    (last.op = "get_show_in_minimap" /\ ~last.raised /\ ST3) =>
        last.ret = IF C5_Width(last.view).v <= 0 THEN IntV(100000)
                   ELSE C5_Width(last.view)

\* C5 (amended): on ST3 a negative width gives 100000 and a zero or positive
\* width is returned unchanged; on ST2 the result is 0; the call raises only
\* when the view has no width, so that load_settings ran through get, and
\* that run found no executable.
C5_NegativeIsUnbounded ==
    last.op = "get_show_in_minimap" =>
        IF last.raised
        THEN /\ ST3
             /\ last.view.git_gutter_show_in_minimap = None
             /\ last.loaded
             /\ ~Truthy(git_binary_path)
        ELSE last.ret = IF ~ST3 THEN IntV(0)
                        ELSE IF C5_Width(last.view).v < 0 THEN IntV(100000)
                        ELSE C5_Width(last.view)

\* C5 witness: the plugin setting is 0, the view has none, and 0 is returned.
C5_Witness ==
    /\ last.op = "get_show_in_minimap"
    /\ ST3
    /\ last.view.git_gutter_show_in_minimap = None
    /\ plugin_store["show_in_minimap"] = IntV(0)
    /\ last.ret = IntV(0)

\* C6: load_settings takes the user's git_binary, then the plugin's; of a
\* per-platform mapping the platform's entry, then its default entry, else
\* nothing; a configured value is used with its environment variables
\* expanded; without one the cached fallback is used; without either PATH is
\* scanned for the first entry holding an executable git, and what the scan
\* finds is cached; a cached path never changes afterwards.
C6_Setting ==
    IF user_store["git_binary"] # NoKey /\ Truthy(user_store["git_binary"])
    THEN user_store["git_binary"]
    ELSE IF plugin_store["git_binary"] # NoKey
    THEN plugin_store["git_binary"]
    ELSE None

C6_Configured ==
    IF C6_Setting.t # "dict" THEN C6_Setting
    ELSE IF platform \in DOMAIN C6_Setting.v /\ Truthy(C6_Setting.v[platform])
    THEN C6_Setting.v[platform]
    ELSE IF "default" \in DOMAIN C6_Setting.v
    THEN C6_Setting.v["default"]
    ELSE None

C6_Usable ==
    {i \in 1..Len(environ.PATH) :
        /\ ST3 => ~environ.PATH[i].quoted
        /\ IsExecutableFile(environ.PATH[i].dir)}

C6_FirstOnPath ==
    LET i == CHOOSE i \in C6_Usable : \A j \in C6_Usable : i <= j
    IN Str(<<C(environ.PATH[i].dir), git_exe>>)

C6_ResolutionOrder ==
    [][/\ Truthy(_git_binary_path_fallback)
              => _git_binary_path_fallback' = _git_binary_path_fallback
       /\ last'.op = "load_settings" =>
              IF Truthy(C6_Configured)
              THEN /\ git_binary_path' = expandvars(C6_Configured)
                   /\ _git_binary_path_fallback' = _git_binary_path_fallback
              ELSE IF Truthy(_git_binary_path_fallback)
              THEN git_binary_path' = _git_binary_path_fallback
              ELSE IF C6_Usable # {}
              THEN /\ git_binary_path' = C6_FirstOnPath
                   /\ _git_binary_path_fallback' = C6_FirstOnPath
              ELSE /\ ~Truthy(git_binary_path')
                   /\ ~Truthy(_git_binary_path_fallback')
      ]_vars

\* C6 witness: nothing is configured and load_settings took the cached path
\* although a scan of PATH would now find nothing or another one.
C6_Witness ==
    /\ last.op = "load_settings"
    /\ ~Truthy(C6_Configured)
    /\ Truthy(_git_binary_path_fallback)
    /\ git_binary_path = _git_binary_path_fallback
    /\ (IF ST3 THEN which ELSE scan_path) # _git_binary_path_fallback

\* C7 (as claimed): get, set, get_compare_against, get_show_in_minimap and
\* theme_path never raise.
C7_AccessorsNeverRaise == last.op \in Accessors => ~last.raised

\* C8 (as claimed): after every run of load_settings the whitespace switch
\* and the patience switch match the settings.
C8_WhitespaceOf ==
    IF plugin_store["ignore_whitespace"] = S("all") THEN S("-w")
    ELSE IF plugin_store["ignore_whitespace"] = S("eol")
    THEN S("--ignore-space-at-eol")
    ELSE EmptyStr

C8_PatienceOf ==
    IF plugin_store["patience"] = BoolV(TRUE) THEN S("--patience") ELSE EmptyStr

C8_AfterEveryLoad ==
    last.loaded =>
        /\ IF Truthy(C8_WhitespaceOf) THEN ignore_whitespace = C8_WhitespaceOf
           ELSE ~Truthy(ignore_whitespace)
        /\ patience_switch = C8_PatienceOf

\* C8 (amended): after every run of load_settings that does not raise, the
\* whitespace switch and the patience switch match the settings.
C8_AfterEveryCompletedLoad ==
    (last.loaded /\ ~last.raised) =>
        ignore_whitespace = C8_WhitespaceOf /\ patience_switch = C8_PatienceOf

\* C8 witness: a completed run with ignore_whitespace 'eol' and patience on.
C8_Witness ==
    /\ last.loaded
    /\ ~last.raised
    /\ plugin_store["ignore_whitespace"] = S("eol")
    /\ ignore_whitespace = S("--ignore-space-at-eol")
    /\ patience_switch = S("--patience")

\* C9 (as claimed): a read of theme_path that directly follows another one,
\* the theme setting being the same, returns the cached path and does not
\* query find_resources.
C9_SecondReadIsCached ==
    [][(last.op = "theme_path" /\ ~last.raised /\ last'.op = "theme_path")
          => ~last'.queried /\ last'.ret = last.ret]_vars

\* C10 (as claimed): get_compare_against leaves the whole resolver state
\* unchanged and shows no dialog.
C10_PureRead ==
    [][last'.op = "get_compare_against" => UNCHANGED resolver]_vars

\* C10 (amended): get_compare_against never changes the compare-target map
\* or the theme-path cache, and leaves the whole resolver state unchanged,
\* showing no dialog, when an override is stored for r, when the view has a
\* setting, or when the settings are loaded and hold compare_against.
C10_ReadUnlessReload ==
    [][last'.op = "get_compare_against" =>
          /\ UNCHANGED <<_compare_against_mapping, _theme_path>>
          /\ (\/ last'.git_tree \in DOMAIN _compare_against_mapping
              \/ Truthy(last'.view.git_gutter_compare_against)
              \/ (_settings # None /\ plugin_store["compare_against"] # NoKey))
                => UNCHANGED resolver
      ]_vars

\* C10 witness: no override, no view setting, the settings loaded and holding
\* compare_against, git installed since: the call returned the plugin setting.
C10_Witness ==
    /\ last.op = "get_compare_against"
    /\ last.git_tree \notin DOMAIN _compare_against_mapping
    /\ ~Truthy(last.view.git_gutter_compare_against)
    /\ ~last.loaded
    /\ last.ret = S("master")
    /\ ~Truthy(git_binary_path)
    /\ files["/a"] = "exec"

====
